---- MODULE Spec2Model ----
(***************************************************************************)
(* MPP: a C++ interface over MPI point-to-point messaging.                 *)
(*                                                                         *)
(* The model holds the endpoint operations (send, receive, asynchronous    *)
(* receive), the request future (isDone, get, getStatus, move              *)
(* construction), the status snapshot, and the transport the library calls *)
(* (MPI_Send, MPI_Recv, MPI_Irecv, MPI_Test, MPI_Wait) with its matching   *)
(* rules, the type traits that describe a bound variable to the transport  *)
(* (address, element count, datatype), and the communicator's cached rank  *)
(* and size.  Every rank runs the body of one of the repository's tests,   *)
(* generalised over the ranks, tags and payloads it uses.                  *)
(***************************************************************************)
EXTENDS Integers, Sequences, FiniteSets, TLC

\* ------------------------------------------------------------------ bounds
MaxRanks == 3          \* largest world size (mpirun -np)
MaxCalls == 3          \* request method calls made on one posted receive
MaxLen == 2            \* most elements of a vector or list a test binds

\* ------------------------------------------------------- program constants
any == -1              \* const int any = MPI_ANY_SOURCE
MPI_SUCCESS == 0
MPI_INT == 0           \* the handle of a predefined datatype (MPI::INT)
PingPongLimit == 10    \* while ( p <= 10 )

Ranks == 0 .. (MaxRanks - 1)
Tags == {0, 11}
Values == {100, 101}
Cells == {"val", "k", "p", "vec"}
Primitives ==
    {"MPI_Send", "MPI_Recv", "MPI_Irecv", "MPI_Initialized", "MPI_Comm_size",
     "MPI_Comm_rank", "MPI_Type_commit"}
Addrs == 0 .. MaxLen   \* where the elements of a container can lie, in element units
ErrorCodes == {"MPI_ERR_RANK", "MPI_ERR_OTHER"}

VARIABLES
    test,     \* the test being run and its inputs (never changes)
    pc,       \* pc[r]: position of rank r in the test body
    store,    \* store[r][c]: the caller's variables messages are bound to
    ep,       \* ep[r]: rank of the endpoint returned by status.source()
    net,      \* net[<<s, d>>]: messages sent by s to d, still in flight
    unexp,    \* unexp[d]: messages arrived at d that matched no posted receive
    mreq,     \* mreq[r]: the transport's receive requests of rank r (MPI_Request)
    sendst,   \* sendst[r]: state of r's blocking send inside MPI_Send
    req,      \* req[r]: the request<T> objects of rank r, oldest first
    log,      \* log[r]: what each library call made by r returned
    nTest,    \* nTest[r]: invocations of MPI_Test by r
    nWait,    \* nWait[r]: invocations of MPI_Wait by r
    env,      \* the container the test binds, the primitive the transport fails,
              \* and whether MPI_Init has been called (never changes)
    dtypes,   \* dtypes[r]: the layouts r has committed (MPI_Type_commit), oldest first
    err,      \* err[r]: the exception or abort that ended r's test body, if any
    held,     \* held[r]: the msg_impl object r has constructed and not yet sent
    world,    \* world[r]: the fields of comm::world in process r
    nCall     \* nCall[r]: invocations by r of each transport primitive the
              \* endpoint and the communicator use

vars == <<test, pc, store, ep, net, unexp, mreq, sendst, req, log, nTest, nWait,
          env, dtypes, err, held, world, nCall>>

\* ---------------------------------------------------------------- transport

\* A message handed to MPI_Send: envelope (src, dst, tag), payload, and whether
\* the transport completes the send only once a receive has matched it.
Message(src, dst, tag, data, sync) ==
    [src |-> src, dst |-> dst, tag |-> tag, data |-> data, sync |-> sync]

\* The completion record MPI fills in (MPI_Status).
MPI_Status(m) ==
    [MPI_SOURCE |-> m.src, MPI_TAG |-> m.tag, MPI_ERROR |-> MPI_SUCCESS]

\* Matching that looks at the tag alone.
Matches_anySource(m, from, tag) == m.tag = tag

\* Envelope matching of a receive posted for (from, tag) against message m.
Matches(m, from, tag) ==
    /\ (from = any \/ m.src = from)
    /\ m.tag = tag

\* Index of the earliest message of queue q a receive for (from, tag) matches; 0 if none.
FirstMatch(q, from, tag) ==
    LET S == {i \in 1 .. Len(q) : Matches(q[i], from, tag)}
    IN IF S = {} THEN 0 ELSE CHOOSE i \in S : \A j \in S : i <= j

\* Index of the earliest active posted receive of rq that message m matches; 0 if none.
FirstPosted(rq, m) ==
    LET S == {i \in 1 .. Len(rq) : rq[i].state = "active" /\ Matches(m, rq[i].from, rq[i].tag)}
    IN IF S = {} THEN 0 ELSE CHOOSE i \in S : \A j \in S : i <= j

Remove(q, i) == [j \in 1 .. (Len(q) - 1) |-> IF j < i THEN q[j] ELSE q[j + 1]]

\* A transport that never tells a blocked sender its message was matched.
Release_never(st, m) == st

\* A sender blocked in a rendezvous MPI_Send is released when its message is matched.
Release(st, m) == IF m.sync THEN [st EXCEPT ![m.src] = "matched"] ELSE st

\* MPI_Test on a transport request: flag and completion record; a completed
\* request is freed (the handle becomes MPI_REQUEST_NULL).
EmptyStatus == [MPI_SOURCE |-> any, MPI_TAG |-> any, MPI_ERROR |-> MPI_SUCCESS]

MPI_Test(tr) ==
    IF tr.state = "active"
    THEN [flag |-> 0, status |-> EmptyStatus, tr |-> tr]
    ELSE [flag |-> 1,
          status |-> IF tr.state = "complete" THEN tr.status ELSE EmptyStatus,
          tr |-> [tr EXCEPT !.state = "null"]]

\* A return value, or an error field, other than MPI_SUCCESS.
MPI_ERR == MPI_SUCCESS + 1

\* A transport request whose completion MPI_Wait reports as failed: the
\* message has been matched and delivered, MPI_Wait returns the error code,
\* and the MPI_ERROR field of the record holds the code when the transport
\* writes it there, or what the field held before (MPI_Wait need not set it).
MPI_Wait_fails(tr) ==
    {[tr EXCEPT !.status = [@ EXCEPT !.MPI_ERROR = e]] :
        e \in {MPI_ERR, tr.status.MPI_ERROR}}

\* MPI_Wait returns only once the request is no longer active.
MPI_Wait_blocks(tr) == tr.state = "active"

MPI_Wait(tr) ==
    [status |-> IF tr.state = "complete" THEN tr.status ELSE EmptyStatus,
     tr |-> [tr EXCEPT !.state = "null"]]

\* ------------------------------------------------------------------ library

\* msg_impl: a binding to the caller's variable (its cell) and a tag.
msg(raw, tag) == [m_data |-> raw, m_tag |-> tag]

\* msg_impl::get and addr: the bound variable, read through the reference.
msg_get(vars_of_caller, m) == vars_of_caller[m.m_data]

\* status: the snapshot of a completed receive and its accessors.
status(s) == [m_status |-> s]
status_source_tag(st) == st.m_status.MPI_TAG
status_source(st) == st.m_status.MPI_SOURCE
status_tag_error(st) == st.m_status.MPI_ERROR
status_tag(st) == st.m_status.MPI_TAG
status_error(st) == st.m_status.MPI_ERROR

\* request<T>(com, req, msg): m_status empty, done = 0.
request(h, m) == [m_req |-> h, m_msg |-> m, m_status |-> <<>>, done |-> 0]

\* request<T>(request<T>&& other): the handle, the message and done are
\* copied, the unique_ptr m_status is moved out of other.
request_move(other) ==
    [new |-> [m_req |-> other.m_req, m_msg |-> other.m_msg,
              m_status |-> other.m_status, done |-> other.done],
     other |-> [other EXCEPT !.m_status = <<>>]]

\* isDone marking the request done whatever the poll reported.
request_isDone_setsDone(r, tr) ==
    IF r.done = 0
    THEN LET t == MPI_Test(tr)
         IN [r |-> [r EXCEPT !.done = 1, !.m_status = <<status(t.status)>>],
             tr |-> t.tr, ret |-> TRUE, tests |-> 1]
    ELSE [r |-> r, tr |-> tr, ret |-> TRUE, tests |-> 0]

\* isDone answering from the flag alone, never polling the transport.
request_isDone_noPoll(r, tr) ==
    [r |-> r, tr |-> tr, ret |-> (r.done # 0), tests |-> 0]

\* isDone polling the transport on every call, done or not.
request_isDone_repolls(r, tr) ==
    LET t == MPI_Test(tr)
    IN [r |-> IF t.flag # 0
              THEN [r EXCEPT !.done = t.flag, !.m_status = <<status(t.status)>>]
              ELSE [r EXCEPT !.done = t.flag],
        tr |-> t.tr, ret |-> (t.flag # 0), tests |-> 1]

\* request::isDone on object r whose transport request is tr.
request_isDone(r, tr) ==
    IF r.done = 0
    THEN LET t == MPI_Test(tr)
         IN [r |-> IF t.flag # 0
                   THEN [r EXCEPT !.done = t.flag, !.m_status = <<status(t.status)>>]
                   ELSE [r EXCEPT !.done = t.flag],
             tr |-> t.tr, ret |-> (t.flag # 0), tests |-> 1]
    ELSE [r |-> r, tr |-> tr, ret |-> TRUE, tests |-> 0]

\* get forgetting to record completion after the wait.
request_get_forgets(r, tr) ==
    IF r.done = 0
    THEN LET w == MPI_Wait(tr)
         IN [r |-> [r EXCEPT !.m_status = <<status(w.status)>>],
             tr |-> w.tr, ret |-> r.m_msg.m_data, waits |-> 1]
    ELSE [r |-> r, tr |-> tr, ret |-> r.m_msg.m_data, waits |-> 0]

\* get that records the completion only when the record shows no error.
request_get_successOnly(r, tr) ==
    IF r.done = 0
    THEN LET w == MPI_Wait(tr)
         IN [r |-> IF w.status.MPI_ERROR = MPI_SUCCESS
                   THEN [r EXCEPT !.done = 1, !.m_status = <<status(w.status)>>]
                   ELSE r,
             tr |-> w.tr, ret |-> r.m_msg.m_data, waits |-> 1]
    ELSE [r |-> r, tr |-> tr, ret |-> r.m_msg.m_data, waits |-> 0]

\* get polling once instead of waiting for completion.
request_get_polls(r, tr) ==
    IF r.done = 0
    THEN LET t == MPI_Test(tr)
         IN [r |-> [r EXCEPT !.done = 1, !.m_status = <<status(t.status)>>],
             tr |-> t.tr, ret |-> r.m_msg.m_data, waits |-> 0]
    ELSE [r |-> r, tr |-> tr, ret |-> r.m_msg.m_data, waits |-> 0]

\* request::get: waits is 1 when the call goes through MPI_Wait.
request_get(r, tr) ==
    IF r.done = 0
    THEN LET w == MPI_Wait(tr)
         IN [r |-> [r EXCEPT !.done = 1, !.m_status = <<status(w.status)>>],
             tr |-> w.tr, ret |-> r.m_msg.m_data, waits |-> 1]
    ELSE [r |-> r, tr |-> tr, ret |-> r.m_msg.m_data, waits |-> 0]

\* getStatus looking at the done flag only, without polling.
request_getStatus_flagOnly(r, tr) ==
    [r |-> r, tr |-> tr, threw |-> (r.done = 0),
     st |-> IF r.done # 0 THEN r.m_status ELSE <<>>, tests |-> 0]

\* getStatus that gives up the request when it fails: done is set and the
\* transport request forgotten.
request_getStatus_givesUp(r, tr) ==
    LET d == request_isDone(r, tr)
    IN [r |-> IF d.ret THEN d.r ELSE [d.r EXCEPT !.done = 1],
        tr |-> IF d.ret THEN d.tr ELSE [d.tr EXCEPT !.state = "null"],
        threw |-> ~d.ret,
        st |-> IF d.ret THEN d.r.m_status ELSE <<>>, tests |-> d.tests]

\* request::getStatus: threw stands for throw "not done".
request_getStatus(r, tr) ==
    LET d == request_isDone(r, tr)
    IN [r |-> d.r, tr |-> d.tr, threw |-> ~d.ret,
        st |-> IF d.ret THEN d.r.m_status ELSE <<>>, tests |-> d.tests]

\* -------------------------------------------------------------- type traits

\* A variable a message is bound to: a scalar, a std::vector or a std::list;
\* whether the message type is const-qualified (msg_impl<const T>); its
\* elements in iteration order; and the address of each element, in units of
\* one element.
Object(kind, isConst, elems, addrs) ==
    [kind |-> kind, isConst |-> isConst, elems |-> elems, addrs |-> addrs]

\* T(): the default-constructed value of the object's type.
Default(obj) ==
    IF obj.kind = "scalar"
    THEN [obj EXCEPT !.elems = <<0>>]
    ELSE [obj EXCEPT !.elems = <<>>, !.addrs = <<>>]

\* The generic rule: one element.
get_size_generic(obj) == 1

\* get_size: vec.size() for a vector, 1 for a scalar and for a list; the const
\* rule hands the object itself to the unqualified rule.
get_size(obj) == IF obj.kind = "vector" THEN Len(obj.elems) ELSE 1

\* get_addr: &raw, &vec.front(), &list.front(); the const rule hands the
\* object itself to the unqualified rule.  front() of an empty container is
\* undefined: the process dies there, or goes on with an address at which no
\* element lies.
get_addr(obj) ==
    IF obj.elems = <<>>
    THEN {[crash |-> TRUE, addr |-> 0]} \cup {[crash |-> FALSE, addr |-> a] : a \in Addrs}
    ELSE {[crash |-> FALSE, addr |-> obj.addrs[1]]}

\* The entries MPI_Type_create_struct is given for list l: one per node, in
\* iteration order, block length 1, displacement from the first node.
list_layout(l) ==
    [i \in 1 .. Len(l.elems) |->
        [disp |-> l.addrs[i] - l.addrs[1], blocklen |-> 1, type |-> MPI_INT]]

\* mpi_type_traits<std::list<T>>::get_type: the layouts the call commits.  On
\* an empty list the code takes front() and writes through begin() of three
\* empty vectors, which is undefined: the process dies, or a layout of no
\* entries is committed.
get_type_list(l) ==
    IF l.elems = <<>>
    THEN {[crash |-> TRUE, commit |-> <<>>], [crash |-> FALSE, commit |-> << <<>> >>]}
    ELSE {[crash |-> FALSE, commit |-> <<list_layout(l)>>]}

\* The unqualified rules: a predefined handle for a scalar and for a vector
\* (nothing is committed), a fresh composite for a list.
get_type_unqualified(obj) ==
    IF obj.kind = "list" THEN get_type_list(obj) ELSE {[crash |-> FALSE, commit |-> <<>>]}

\* mpi_type_traits<const T>::get_type(elem) is mpi_type_traits<T>::get_type(T()).
get_type(obj) ==
    IF obj.isConst THEN get_type_unqualified(Default(obj)) ELSE get_type_unqualified(obj)

\* What m.type(), m.addr() and m.size() give an endpoint operation, in the
\* order endpoint::send evaluates them.
Descriptor(obj) ==
    {[crash |-> t.crash \/ a.crash, commit |-> t.commit, addr |-> a.addr,
      count |-> get_size(obj)] : t \in get_type(obj), a \in get_addr(obj)}

\* The transport calls that commit a descriptor's layouts.
Commits(d) == [j \in 1 .. Len(d.commit) |-> "MPI_Type_commit"]

\* The handle a descriptor names: the predefined one, or the next free
\* position in the process's committed layouts.
Handle(types, d) == IF d.commit = <<>> THEN MPI_INT ELSE Len(types) + 1

\* The entries of the datatype behind a handle.
Layout(types, dt) ==
    IF dt = MPI_INT THEN <<[disp |-> 0, blocklen |-> 1, type |-> MPI_INT]>> ELSE types[dt]

\* The element at address a of the sender's memory; outside the object lies
\* memory that holds no element of it.
Deref(obj, a) ==
    IF \E i \in 1 .. Len(obj.elems) : obj.addrs[i] = a
    THEN obj.elems[CHOOSE i \in 1 .. Len(obj.elems) : obj.addrs[i] = a]
    ELSE 0

\* The span of a datatype: from its lowest to its highest element.
Extent(layout) ==
    IF layout = <<>> THEN 0
    ELSE LET ds == {layout[i].disp : i \in 1 .. Len(layout)}
         IN (CHOOSE hi \in ds : \A d \in ds : d <= hi)
            - (CHOOSE lo \in ds : \A d \in ds : lo <= d) + 1

\* What MPI_Send reads: count items of the datatype starting at addr, each
\* item its entries in order.
Pack(obj, addr, count, layout) ==
    [j \in 1 .. (count * Len(layout)) |->
        Deref(obj, addr + ((j - 1) \div Len(layout)) * Extent(layout)
                        + layout[((j - 1) % Len(layout)) + 1].disp)]

\* What MPI_Recv writes into a buffer of contiguous elements: the elements
\* received, in order, from the front; the rest of the buffer is left alone.
Unpack(old, data) ==
    [j \in 1 .. Len(old) |-> IF j <= Len(data) THEN data[j] ELSE old[j]]

\* ------------------------------------------------------------ communicator

\* comm(MPI_Comm): the fields of a communicator nobody has queried yet.
comm == [m_initialized |-> FALSE, m_comm_size |-> -1, m_rank |-> -1]

\* A check that sets the flag before it asserts.
check_init_flagFirst(w, self) ==
    IF w.m_initialized
    THEN [abort |-> FALSE, w |-> w, calls |-> <<>>]
    ELSE IF ~env.mpi
    THEN [abort |-> TRUE, w |-> [w EXCEPT !.m_initialized = TRUE],
          calls |-> <<"MPI_Initialized">>]
    ELSE [abort |-> FALSE,
          w |-> [m_initialized |-> TRUE, m_comm_size |-> test.nprocs, m_rank |-> self],
          calls |-> <<"MPI_Initialized", "MPI_Comm_size", "MPI_Comm_rank">>]

\* A check that queries the transport on every call.
check_init_always(w, self) ==
    IF ~env.mpi
    THEN [abort |-> TRUE, w |-> w, calls |-> <<"MPI_Initialized">>]
    ELSE [abort |-> FALSE,
          w |-> [m_initialized |-> TRUE, m_comm_size |-> test.nprocs, m_rank |-> self],
          calls |-> <<"MPI_Initialized", "MPI_Comm_size", "MPI_Comm_rank">>]

\* comm::check_init in process self: the fields afterwards, whether the
\* assertion ended the process, and the transport queries made.
check_init(w, self) ==
    IF w.m_initialized
    THEN [abort |-> FALSE, w |-> w, calls |-> <<>>]
    ELSE IF ~env.mpi
    THEN [abort |-> TRUE, w |-> w, calls |-> <<"MPI_Initialized">>]
    ELSE [abort |-> FALSE,
          w |-> [m_initialized |-> TRUE, m_comm_size |-> test.nprocs, m_rank |-> self],
          calls |-> <<"MPI_Initialized", "MPI_Comm_size", "MPI_Comm_rank">>]

\* comm::rank() and comm::size()
comm_rank(w, self) ==
    LET c == check_init(w, self)
    IN [abort |-> c.abort, w |-> c.w, calls |-> c.calls, ret |-> c.w.m_rank]

comm_size(w, self) ==
    LET c == check_init(w, self)
    IN [abort |-> c.abort, w |-> c.w, calls |-> c.calls, ret |-> c.w.m_comm_size]

\* The counters after the primitives in calls have each been invoked once.
RECURSIVE Called(_, _)
Called(n, calls) ==
    IF calls = <<>> THEN n
    ELSE Called([n EXCEPT ![Head(calls)] = @ + 1], Tail(calls))

\* A text that names the two ranks the other way round.
comm_error_swapped(what, local, peer) ==
    [kind |-> "comm_error", what |-> what, rank |-> peer, peer |-> local]

\* comm_error: what the text built by a failing endpoint operation names.
comm_error(what, local, peer) ==
    [kind |-> "comm_error", what |-> what, rank |-> local, peer |-> peer]

\* The process died: a failed assertion, or undefined behaviour that crashed.
Abort == [kind |-> "abort", what |-> "", rank |-> any, peer |-> any]

\* -------------------------------------------------------------------- tests

\* TEST(SendRecv, Scalar): a sends x to b and receives the reply; b receives
\* and replies.  TEST(SendRecv, Future): a sends x with tag t1, b posts an
\* asynchronous receive for tag t2 and then uses the request.
\* TEST(SendRecv, Tags): a sends x with tag t1 then y with tag t2, b receives
\* tag t2 first.  TEST(SendRecv, PingPong): rank 0 starts, every rank answers
\* the detected source until p exceeds the limit.
Pairs(n) == {ab \in (0 .. (n - 1)) \X (0 .. (n - 1)) : ab[1] # ab[2]}

TestCase(name, n, ab, t1, t2, x, y) ==
    [name |-> name, nprocs |-> n, a |-> ab[1], b |-> ab[2],
     t1 |-> t1, t2 |-> t2, x |-> x, y |-> y]

Tests ==
    {TestCase("scalar", n, ab, t, t, x, y) :
        n \in {MaxRanks}, ab \in Pairs(MaxRanks), t \in Tags, x \in Values, y \in Values}
    \cup
    {TestCase("future", n, ab, t1, t2, x, x) :
        n \in {MaxRanks}, ab \in Pairs(MaxRanks), t1 \in Tags, t2 \in Tags, x \in Values}
    \cup
    {TestCase("tags", n, ab, tt[1], tt[2], x, y) :
        n \in {MaxRanks}, ab \in Pairs(MaxRanks),
        tt \in {tt \in Tags \X Tags : tt[1] # tt[2]}, x \in Values, y \in Values}
    \cup
    {TestCase("pingpong", n, <<0, 1>>, 0, 0, 0, 0) : n \in 2 .. MaxRanks}
    \cup
    {TestCase(name, MaxRanks, <<0, 1>>, 0, 0, 0, 0) : name \in {"array", "lists", "descr"}}
    \cup
    {TestCase("constmsg", MaxRanks, <<0, 1>>, t, t, x, y) :
        t \in Tags, x \in Values, y \in Values}
    \cup
    {TestCase("comm", n, <<0, 1>>, 0, 0, 0, 0) : n \in 2 .. MaxRanks}
    \cup
    {TestCase("overload", MaxRanks, ab, t, t, x, x) :
        ab \in Pairs(MaxRanks), t \in Tags, x \in Values}
    \cup
    {TestCase("wild", MaxRanks, ab, t, t, x, y) :
        ab \in Pairs(MaxRanks), t \in Tags, x \in Values, y \in Values}
    \cup
    {TestCase("chain", MaxRanks, ab, t, t, x, y) :
        ab \in Pairs(MaxRanks), t \in Tags, x \in Values, y \in Values}

\* The containers a test binds: vectors lie in consecutive addresses, the
\* nodes of a list anywhere, no two at one address.  Each is sent either as a
\* raw value (the endpoint wraps it in msg_impl<const T>) or through msg(v).
VectorsOf(n) ==
    {Object("vector", c, e, [i \in 1 .. n |-> base + i - 1]) :
        c \in BOOLEAN, e \in [1 .. n -> Values],
        base \in {a \in Addrs : a + n <= MaxLen + 1}}

Vectors == UNION {VectorsOf(n) : n \in 0 .. MaxLen}

ListsOf(n) ==
    {Object("list", c, e, ad) :
        c \in BOOLEAN, e \in [1 .. n -> Values],
        ad \in {f \in [1 .. n -> Addrs] : \A i, j \in 1 .. n : i # j => f[i] # f[j]}}

Lists == UNION {ListsOf(n) : n \in 0 .. MaxLen}

Scalars == {Object("scalar", c, <<v>>, <<a>>) : c \in BOOLEAN, v \in Values, a \in Addrs}

NoObject == Object("scalar", FALSE, <<0>>, <<0>>)

\* The primitive the transport fails in this run and the error code it reports
\* (the communicator's error handler returns errors to the caller).
NoFault == [prim |-> "none", code |-> ""]
Faults(prims) == {[prim |-> p, code |-> c] : p \in prims, c \in ErrorCodes}

\* The forms of a send: of a temporary message (ep << msg(v, t)), of a named
\* message (msg_impl<T> m(v, t); ep << m) and of a raw value (ep << v).
Forms == {"temporary", "named", "raw"}

Environment(obj, fault, mpi, form) ==
    [obj |-> obj, fault |-> fault, mpi |-> mpi, form |-> form]

Envs(t) ==
    CASE t.name = "scalar" ->
            {Environment(NoObject, f, TRUE, "temporary") : f \in Faults({"send", "recv"}) \cup {NoFault}}
      [] t.name = "future" ->
            {Environment(NoObject, f, TRUE, "temporary") :
                f \in Faults({"irecv"}) \cup {NoFault, [prim |-> "wait", code |-> "MPI_ERR_OTHER"]}}
      [] t.name = "array" -> {Environment(o, NoFault, TRUE, "temporary") : o \in Vectors}
      [] t.name = "lists" -> {Environment(o, NoFault, TRUE, "temporary") : o \in Lists}
      [] t.name = "descr" ->
            {Environment(o, NoFault, TRUE, "temporary") : o \in Scalars \cup Vectors \cup Lists}
      [] t.name = "comm" -> {Environment(NoObject, NoFault, m, "temporary") : m \in BOOLEAN}
      [] t.name = "overload" -> {Environment(NoObject, NoFault, TRUE, f) : f \in Forms}
      [] OTHER -> {Environment(NoObject, NoFault, TRUE, "temporary")}

SendI(peer, tag, val, next) ==
    [op |-> "send", peer |-> peer, tag |-> tag, val |-> val, cell |-> "val", next |-> next]
RecvI(peer, tag, cell, next) ==
    [op |-> "recv", peer |-> peer, tag |-> tag, val |-> 0, cell |-> cell, next |-> next]
IrecvI(peer, tag, cell, next) ==
    [op |-> "irecv", peer |-> peer, tag |-> tag, val |-> 0, cell |-> cell, next |-> next]
RequestI(next) ==
    [op |-> "request", peer |-> any, tag |-> 0, val |-> 0, cell |-> "k", next |-> next]
NoneI ==
    [op |-> "none", peer |-> any, tag |-> 0, val |-> 0, cell |-> "val", next |-> 0]
SendNamedI(peer, tag, val, next) ==
    [op |-> "send_named", peer |-> peer, tag |-> tag, val |-> val, cell |-> "val", next |-> next]
SendC(peer, tag, obj, next) ==
    [op |-> "send", peer |-> peer, tag |-> tag, val |-> obj, cell |-> "vec", next |-> next]
AssignI(cell, val, next) ==
    [op |-> "assign", peer |-> any, tag |-> 0, val |-> val, cell |-> cell, next |-> next]
MsgI(cell, tag, next) ==
    [op |-> "msg", peer |-> any, tag |-> tag, val |-> 0, cell |-> cell, next |-> next]
DescI(obj, next) ==
    [op |-> "describe", peer |-> any, tag |-> 0, val |-> obj, cell |-> "vec", next |-> next]
CommI ==
    [op |-> "comm", peer |-> any, tag |-> 0, val |-> 0, cell |-> "val", next |-> 0]

\* The library call rank self makes next.
Scalar(self) ==
    IF self = test.a
    THEN CASE pc[self] = 0 -> SendI(test.b, test.t1, test.x, 1)
           [] pc[self] = 1 -> RecvI(test.b, test.t1, "val", 2)
           [] OTHER -> NoneI
    ELSE IF self = test.b
    THEN CASE pc[self] = 0 -> RecvI(test.a, test.t1, "val", 1)
           [] pc[self] = 1 -> SendI(test.a, test.t1, test.y, 2)
           [] OTHER -> NoneI
    ELSE NoneI

Future(self) ==
    IF self = test.a
    THEN CASE pc[self] = 0 -> SendI(test.b, test.t1, test.x, 1)
           [] OTHER -> NoneI
    ELSE IF self = test.b
    THEN CASE pc[self] = 0 -> IrecvI(test.a, test.t2, "k", 1)
           [] OTHER -> RequestI(1)
    ELSE NoneI

TagsTest(self) ==
    IF self = test.a
    THEN CASE pc[self] = 0 -> SendI(test.b, test.t1, test.x, 1)
           [] pc[self] = 1 -> SendI(test.b, test.t2, test.y, 2)
           [] OTHER -> NoneI
    ELSE IF self = test.b
    THEN CASE pc[self] = 0 -> RecvI(test.a, test.t2, "k", 1)
           [] pc[self] = 1 -> RecvI(test.a, test.t1, "k", 2)
           [] OTHER -> NoneI
    ELSE NoneI

\* e << x << y with one tag: the second send goes through the endpoint the
\* first returned (the first entry of a's log); b receives twice from a with
\* that tag.
Chain(self) ==
    IF self = test.a
    THEN CASE pc[self] = 0 -> SendI(test.b, test.t1, test.x, 1)
           [] pc[self] = 1 -> SendI(log[self][1].peer, test.t1, test.y, 2)
           [] OTHER -> NoneI
    ELSE IF self = test.b
    THEN CASE pc[self] = 0 -> RecvI(test.a, test.t1, "val", 1)
           [] pc[self] = 1 -> RecvI(test.a, test.t1, "k", 2)
           [] OTHER -> NoneI
    ELSE NoneI

\* a sends x to b in one of the forms of send: a temporary message, a named
\* message, or the raw value (whose tag is 0); b receives it.
Overload(self) ==
    LET tag == IF env.form = "raw" THEN 0 ELSE test.t1 IN
    IF self = test.a
    THEN CASE pc[self] = 0 /\ env.form = "named" -> MsgI("val", tag, 1)
           [] pc[self] = 0 /\ env.form # "named" -> SendI(test.b, tag, test.x, 2)
           [] pc[self] = 1 -> SendNamedI(test.b, held[self][1].m_tag, test.x, 2)
           [] OTHER -> NoneI
    ELSE IF self = test.b
    THEN CASE pc[self] = 0 -> RecvI(test.a, tag, "val", 1)
           [] OTHER -> NoneI
    ELSE NoneI

\* A rank of the world other than a and b.
Third == CHOOSE r \in 0 .. (test.nprocs - 1) : r \notin {test.a, test.b}

\* Two senders, one receiver: a sends x twice and a third rank sends y, all
\* to b with one tag; b receives from any and then from the endpoint of a.
Wild(self) ==
    IF self = test.a
    THEN CASE pc[self] \in {0, 1} -> SendI(test.b, test.t1, test.x, pc[self] + 1)
           [] OTHER -> NoneI
    ELSE IF self = Third
    THEN CASE pc[self] = 0 -> SendI(test.b, test.t1, test.y, 1)
           [] OTHER -> NoneI
    ELSE IF self = test.b
    THEN CASE pc[self] = 0 -> RecvI(any, test.t1, "k", 1)
           [] pc[self] = 1 -> RecvI(test.a, test.t1, "val", 2)
           [] OTHER -> NoneI
    ELSE NoneI

PingPong(self) ==
    CASE pc[self] = 0 -> SendI(1, 0, store[self]["p"], 1)
      [] pc[self] = 1 /\ store[self]["p"] <= PingPongLimit -> RecvI(any, 0, "p", 2)
      [] pc[self] = 2 -> SendI(ep[self], 0, store[self]["p"] + 1, 1)
      [] OTHER -> NoneI

\* TEST(SendRecv, Array) and TEST(SendRecv, Lists): a sends the container, b
\* receives into a vector of as many elements.
Containers(self) ==
    IF self = test.a
    THEN CASE pc[self] = 0 -> SendC(test.b, 0, env.obj, 1)
           [] OTHER -> NoneI
    ELSE IF self = test.b
    THEN CASE pc[self] = 0 -> RecvI(test.a, 0, "vec", 1)
           [] OTHER -> NoneI
    ELSE NoneI

\* a sets its variable to x, builds a const message on it, sets the variable
\* to y and sends the message as an rvalue (ep << std::move(m)); b receives.
ConstMsg(self) ==
    IF self = test.a
    THEN CASE pc[self] = 0 -> AssignI("val", test.x, 1)
           [] pc[self] = 1 -> MsgI("val", test.t1, 2)
           [] pc[self] = 2 -> AssignI("val", test.y, 3)
           [] pc[self] = 3 -> SendI(test.b, held[self][1].m_tag,
                                    msg_get(store[self], held[self][1]), 4)
           [] OTHER -> NoneI
    ELSE IF self = test.b
    THEN CASE pc[self] = 0 -> RecvI(test.a, test.t1, "val", 1)
           [] OTHER -> NoneI
    ELSE NoneI

\* a asks a message bound to the object for its descriptor, twice.
Descr(self) ==
    IF self = test.a /\ pc[self] \in {0, 1} THEN DescI(env.obj, pc[self] + 1) ELSE NoneI

\* a and b query comm::world for their rank and for the size, in any order.
Comm(self) ==
    IF self \in {test.a, test.b} /\ Len(log[self]) < MaxCalls THEN CommI ELSE NoneI

\* An exception or an abort ends the test body.
Instr(self) ==
    IF self >= test.nprocs \/ err[self] # <<>> THEN NoneI
    ELSE CASE test.name = "scalar" -> Scalar(self)
           [] test.name = "future" -> Future(self)
           [] test.name = "tags" -> TagsTest(self)
           [] test.name \in {"array", "lists"} -> Containers(self)
           [] test.name = "constmsg" -> ConstMsg(self)
           [] test.name = "descr" -> Descr(self)
           [] test.name = "comm" -> Comm(self)
           [] test.name = "chain" -> Chain(self)
           [] test.name = "wild" -> Wild(self)
           [] test.name = "overload" -> Overload(self)
           [] OTHER -> PingPong(self)

\* What a library call returned to the test: the peer, tag and value of a send
\* or receive, the boolean or the Status returned, whether it threw, and for a
\* request method the object's done flag before the call, whether the posted
\* receive had completed in the transport, and how many transport primitives
\* (MPI_Test, MPI_Wait) the call invoked.
Entry(op) ==
    [op |-> op, peer |-> any, tag |-> any, val |-> 0, b |-> FALSE, threw |-> FALSE,
     st |-> <<>>, wasDone |-> 0, arrived |-> FALSE, prim |-> 0]

\* The tests' receive variables (int k; double val;) start with no value the
\* code ever reads: each is written by a receive before any read.  The vector
\* a container is received into has as many elements as the container, all 0
\* (std::vector<int> vec(n)).
Init ==
    /\ test \in Tests
    /\ pc = [r \in Ranks |-> IF test.name = "pingpong" /\ r # 0 THEN 1 ELSE 0]
    /\ env \in Envs(test)
    /\ store = [r \in Ranks |->
                  [c \in Cells |-> IF c = "vec"
                                   THEN [i \in 1 .. Len(env.obj.elems) |-> 0]
                                   ELSE 0]]
    /\ ep = [r \in Ranks |-> any]
    /\ net = [sd \in Ranks \X Ranks |-> <<>>]
    /\ unexp = [r \in Ranks |-> <<>>]
    /\ mreq = [r \in Ranks |-> <<>>]
    /\ sendst = [r \in Ranks |-> "idle"]
    /\ req = [r \in Ranks |-> <<>>]
    /\ log = [r \in Ranks |-> <<>>]
    /\ nTest = [r \in Ranks |-> 0]
    /\ nWait = [r \in Ranks |-> 0]
    /\ dtypes = [r \in Ranks |-> <<>>]
    /\ err = [r \in Ranks |-> <<>>]
    /\ held = [r \in Ranks |-> <<>>]
    /\ world = [r \in Ranks |-> comm]
    /\ nCall = [r \in Ranks |-> [p \in Primitives |-> 0]]

\* ------------------------------------------------------------------ actions

\* endpoint::send: the envelope and payload handed to MPI_Send.
endpoint_send(self, m_rank, tag, data, sync) == Message(self, m_rank, tag, data, sync)

\* A send that returns the endpoint of rank 0 of the world.
endpoint_return_first(m_rank) == 0

\* endpoint::send returns *this: the endpoint of the same rank.
endpoint_return(m_rank) == m_rank

\* endpoint::operator>>: the arrived message MPI_Recv(m_rank, m.tag()) takes; 0 blocks.
endpoint_receive(q, m_rank, m) == FirstMatch(q, m_rank, m.m_tag)

\* endpoint::operator>: the arrived message MPI_Irecv(m_rank, m.tag()) takes; 0 posts.
endpoint_receiveAsync(q, m_rank, m) == FirstMatch(q, m_rank, m.m_tag)

\* What endpoint::send hands MPI_Send for the message of instruction i: the
\* layouts m.type() commits and the elements read through m.addr(), m.size()
\* and the datatype; or the process dies computing them.
endpoint_send_args(types, i) ==
    IF i.cell = "vec"
    THEN {[crash |-> d.crash, commit |-> d.commit,
           data |-> Pack(i.val, d.addr, d.count, Layout(types \o d.commit, Handle(types, d)))] :
             d \in Descriptor(i.val)}
    ELSE {[crash |-> FALSE, commit |-> <<>>, data |-> i.val]}

\* What endpoint::operator>> hands MPI_Recv for the variable of instruction i.
endpoint_receive_args(vars_of_caller, i) ==
    IF i.cell = "vec"
    THEN Descriptor(Object("vector", FALSE, vars_of_caller["vec"],
                           [j \in 1 .. Len(vars_of_caller["vec"]) |-> j - 1]))
    ELSE {[crash |-> FALSE, commit |-> <<>>, addr |-> 0, count |-> 1]}

\* A failure path that invokes the failed primitive once more before throwing.
Raise_retry(self, prims, what, peer) ==
    LET c == comm_rank(world[self], self)
    IN /\ err' = [err EXCEPT ![self] =
                    <<IF c.abort THEN Abort ELSE comm_error(what, c.ret, peer)>>]
       /\ world' = [world EXCEPT ![self] = c.w]
       /\ nCall' = [nCall EXCEPT ![self] = Called(@, prims \o prims \o c.calls)]

\* The failure path of an endpoint operation: the text is built with
\* comm::world.rank() and m_rank, and comm_error is thrown.
Raise(self, prims, what, peer) ==
    LET c == comm_rank(world[self], self)
    IN /\ err' = [err EXCEPT ![self] =
                    <<IF c.abort THEN Abort ELSE comm_error(what, c.ret, peer)>>]
       /\ world' = [world EXCEPT ![self] = c.w]
       /\ nCall' = [nCall EXCEPT ![self] = Called(@, prims \o c.calls)]

\* endpoint::send enters MPI_Send.  The transport either buffers the message
\* and returns at once, or holds the caller until a receive has matched it
\* (a standard-mode send may do either), or reports a failure.  The
\* destination is a rank of the communicator.
Send(self) ==
    LET i == Instr(self) IN
    /\ i.op = "send"
    /\ sendst[self] = "idle"
    /\ i.peer \in 0 .. (test.nprocs - 1)
    /\ \E d \in endpoint_send_args(dtypes[self], i) :
          IF d.crash
          THEN /\ err' = [err EXCEPT ![self] = <<Abort>>]
               /\ UNCHANGED <<pc, log, net, sendst, dtypes, world, nCall>>
          ELSE /\ dtypes' = [dtypes EXCEPT ![self] = @ \o d.commit]
               /\ IF env.fault.prim = "send"
                  THEN /\ Raise(self, Commits(d) \o <<"MPI_Send">>, "send", i.peer)
                       /\ UNCHANGED <<pc, log, net, sendst>>
                  ELSE /\ \E sync \in BOOLEAN :
                            /\ net' = [net EXCEPT ![<<self, i.peer>>] =
                                  Append(@, endpoint_send(self, i.peer, i.tag, d.data, sync))]
                            /\ IF sync
                               THEN /\ sendst' = [sendst EXCEPT ![self] = "waiting"]
                                    /\ UNCHANGED <<pc, log>>
                               ELSE /\ pc' = [pc EXCEPT ![self] = i.next]
                                    /\ log' = [log EXCEPT ![self] = Append(@,
                                          [Entry("send") EXCEPT !.peer = endpoint_return(i.peer), !.tag = i.tag,
                                                                !.val = i.val])]
                                    /\ UNCHANGED sendst
                       /\ nCall' = [nCall EXCEPT ![self] =
                             Called(@, Commits(d) \o <<"MPI_Send">>)]
                       /\ UNCHANGED <<err, world>>
    /\ UNCHANGED <<test, store, ep, unexp, mreq, req, nTest, nWait, env, held>>

\* endpoint::send(const msg_impl<MsgType>&) and operator<<(const
\* msg_impl<MsgType>&): the call send(std::move(m)) passes a const rvalue,
\* which the overload taking msg_impl<MsgType>&& cannot bind, so the function
\* calls itself.  The recursion never reaches MPI_Send: the process overflows
\* its stack, or spins when the call is compiled as a jump.
SendNamed(self) ==
    LET i == Instr(self) IN
    /\ i.op = "send_named"
    /\ sendst[self] = "idle"
    /\ \E overflow \in BOOLEAN :
          IF overflow
          THEN err' = [err EXCEPT ![self] = <<Abort>>] /\ UNCHANGED sendst
          ELSE sendst' = [sendst EXCEPT ![self] = "recursing"] /\ UNCHANGED err
    /\ UNCHANGED <<test, pc, store, ep, net, unexp, mreq, req, log, nTest, nWait,
                   env, dtypes, held, world, nCall>>

\* MPI_Send returns to endpoint::send once the message has been matched.
SendReturn(self) ==
    LET i == Instr(self) IN
    /\ i.op = "send"
    /\ sendst[self] = "matched"
    /\ sendst' = [sendst EXCEPT ![self] = "idle"]
    /\ pc' = [pc EXCEPT ![self] = i.next]
    /\ log' = [log EXCEPT ![self] = Append(@,
          [Entry("send") EXCEPT !.peer = endpoint_return(i.peer), !.tag = i.tag,
                                !.val = i.val])]
    /\ UNCHANGED <<test, store, ep, net, unexp, mreq, req, nTest, nWait,
                   env, dtypes, err, held, world, nCall>>

\* The transport delivers the oldest message in flight from s to d: it completes
\* the earliest posted receive it matches, or joins d's unexpected queue.
Deliver(s, d) ==
    /\ net[<<s, d>>] # <<>>
    /\ LET m == Head(net[<<s, d>>])
           k == FirstPosted(mreq[d], m)
       IN /\ net' = [net EXCEPT ![<<s, d>>] = Tail(@)]
          /\ IF k = 0
             THEN /\ unexp' = [unexp EXCEPT ![d] = Append(@, m)]
                  /\ UNCHANGED <<mreq, store, sendst>>
             ELSE /\ mreq' = [mreq EXCEPT ![d][k] =
                        [@ EXCEPT !.state = "complete", !.status = MPI_Status(m)]]
                  /\ store' = [store EXCEPT ![d][mreq[d][k].cell] = m.data]
                  /\ sendst' = Release(sendst, m)
                  /\ UNCHANGED unexp
    /\ UNCHANGED <<test, pc, ep, req, log, nTest, nWait,
                   env, dtypes, err, held, world, nCall>>

\* endpoint::operator>>: MPI_Recv returns with the earliest matching message,
\* or reports a failure.
Receive(self) ==
    LET i == Instr(self)
        k == endpoint_receive(unexp[self], i.peer, msg(i.cell, i.tag))
    IN
    /\ i.op = "recv"
    /\ \E d \in endpoint_receive_args(store[self], i) :
          IF d.crash
          THEN /\ err' = [err EXCEPT ![self] = <<Abort>>]
               /\ UNCHANGED <<pc, log, unexp, store, sendst, ep, world, nCall>>
          ELSE IF env.fault.prim = "recv"
          THEN /\ Raise(self, <<"MPI_Recv">>, "receive", i.peer)
               /\ UNCHANGED <<pc, log, unexp, store, sendst, ep>>
          ELSE /\ k # 0
               /\ LET m == unexp[self][k]
                      st == status(MPI_Status(m))
                  IN /\ unexp' = [unexp EXCEPT ![self] = Remove(@, k)]
                     /\ store' = [store EXCEPT ![self][i.cell] =
                           IF i.cell = "vec" THEN Unpack(@, m.data) ELSE m.data]
                     /\ sendst' = Release(sendst, m)
                     /\ ep' = [ep EXCEPT ![self] = status_source(st)]
                     /\ log' = [log EXCEPT ![self] = Append(@,
                           [Entry("recv") EXCEPT !.peer = m.src, !.tag = i.tag, !.val = m.data,
                                                 !.st = <<st>>])]
               /\ pc' = [pc EXCEPT ![self] = i.next]
               /\ nCall' = [nCall EXCEPT ![self] = Called(@, <<"MPI_Recv">>)]
               /\ UNCHANGED <<err, world>>
    /\ UNCHANGED <<test, net, mreq, req, nTest, nWait, env, dtypes, held>>

\* endpoint::operator>: MPI_Irecv posts the receive and the message moves into
\* a new request, or MPI_Irecv reports a failure.
ReceiveAsync(self) ==
    LET i == Instr(self)
        m == msg(i.cell, i.tag)
        k == endpoint_receiveAsync(unexp[self], i.peer, m)
        h == Len(mreq[self]) + 1
        posted == [from |-> i.peer, tag |-> m.m_tag, cell |-> m.m_data,
                   state |-> "active", status |-> EmptyStatus]
    IN
    /\ i.op = "irecv"
    /\ IF env.fault.prim = "irecv"
       THEN /\ Raise(self, <<"MPI_Irecv">>, "receive", i.peer)
            /\ UNCHANGED <<mreq, unexp, store, sendst, req, log, pc>>
       ELSE /\ IF k = 0
               THEN /\ mreq' = [mreq EXCEPT ![self] = Append(@, posted)]
                    /\ UNCHANGED <<unexp, store, sendst>>
               ELSE /\ mreq' = [mreq EXCEPT ![self] = Append(@,
                          [posted EXCEPT !.state = "complete",
                                         !.status = MPI_Status(unexp[self][k])])]
                    /\ unexp' = [unexp EXCEPT ![self] = Remove(@, k)]
                    /\ store' = [store EXCEPT ![self][m.m_data] = unexp[self][k].data]
                    /\ sendst' = Release(sendst, unexp[self][k])
            /\ req' = [req EXCEPT ![self] = <<request(h, m)>>]
            /\ log' = [log EXCEPT ![self] =
                  Append(@, [Entry("irecv") EXCEPT !.arrived = (k # 0)])]
            /\ pc' = [pc EXCEPT ![self] = i.next]
            /\ nCall' = [nCall EXCEPT ![self] = Called(@, <<"MPI_Irecv">>)]
            /\ UNCHANGED <<err, world>>
    /\ UNCHANGED <<test, ep, net, nTest, nWait, env, dtypes, held>>

\* The request object the test holds (the target of the latest move) and the
\* transport request behind it.
Live(self) == Len(req[self])
LiveReq(self) == req[self][Live(self)]
LiveTr(self) == mreq[self][LiveReq(self).m_req]

CanCall(self) ==
    /\ Instr(self).op = "request"
    /\ Len(log[self]) <= MaxCalls

\* request::isDone
IsDone(self) ==
    /\ CanCall(self)
    /\ LET r == LiveReq(self)
           res == request_isDone(r, LiveTr(self))
       IN /\ req' = [req EXCEPT ![self][Live(self)] = res.r]
          /\ mreq' = [mreq EXCEPT ![self][r.m_req] = res.tr]
          /\ nTest' = [nTest EXCEPT ![self] = @ + res.tests]
          /\ log' = [log EXCEPT ![self] = Append(@,
                [Entry("isDone") EXCEPT !.b = res.ret, !.wasDone = r.done, !.prim = res.tests,
                                        !.arrived = (LiveTr(self).state # "active")])]
    /\ UNCHANGED <<test, pc, store, ep, net, unexp, sendst, nWait,
                   env, dtypes, err, held, world, nCall>>

\* request::get; a call that goes through MPI_Wait returns only once the
\* posted receive has completed, with success or with a failure.
Get(self) ==
    /\ CanCall(self)
    /\ \E tr \in IF env.fault.prim = "wait" /\ LiveReq(self).done = 0
                  THEN MPI_Wait_fails(LiveTr(self)) ELSE {LiveTr(self)} :
       LET r == LiveReq(self)
           res == request_get(r, tr)
       IN /\ res.waits = 1 => ~MPI_Wait_blocks(tr)
          /\ req' = [req EXCEPT ![self][Live(self)] = res.r]
          /\ mreq' = [mreq EXCEPT ![self][r.m_req] = res.tr]
          /\ nWait' = [nWait EXCEPT ![self] = @ + res.waits]
          /\ log' = [log EXCEPT ![self] = Append(@,
                [Entry("get") EXCEPT !.val = store[self][res.ret], !.wasDone = r.done,
                                     !.prim = res.waits,
                                     !.arrived = (LiveTr(self).state # "active"),
                                     !.st = res.r.m_status])]
    /\ UNCHANGED <<test, pc, store, ep, net, unexp, sendst, nTest,
                   env, dtypes, err, held, world, nCall>>

\* request::getStatus
GetStatus(self) ==
    /\ CanCall(self)
    /\ LET r == LiveReq(self)
           res == request_getStatus(r, LiveTr(self))
       IN /\ req' = [req EXCEPT ![self][Live(self)] = res.r]
          /\ mreq' = [mreq EXCEPT ![self][r.m_req] = res.tr]
          /\ nTest' = [nTest EXCEPT ![self] = @ + res.tests]
          /\ log' = [log EXCEPT ![self] = Append(@,
                [Entry("getStatus") EXCEPT !.threw = res.threw, !.st = res.st,
                                           !.wasDone = r.done, !.prim = res.tests,
                                           !.arrived = (LiveTr(self).state # "active")])]
    /\ UNCHANGED <<test, pc, store, ep, net, unexp, sendst, nWait,
                   env, dtypes, err, held, world, nCall>>

\* request<T> r2(std::move(r)): the test goes on with the new object.
MoveRequest(self) ==
    /\ CanCall(self)
    /\ LET mv == request_move(LiveReq(self))
       IN req' = [req EXCEPT ![self] = Append([@ EXCEPT ![Live(self)] = mv.other], mv.new)]
    /\ log' = [log EXCEPT ![self] = Append(@, [Entry("move") EXCEPT !.wasDone = LiveReq(self).done])]
    /\ UNCHANGED <<test, pc, store, ep, net, unexp, mreq, sendst, nTest, nWait,
                   env, dtypes, err, held, world, nCall>>

\* The test body writes one of its variables.
Assign(self) ==
    LET i == Instr(self) IN
    /\ i.op = "assign"
    /\ store' = [store EXCEPT ![self][i.cell] = i.val]
    /\ pc' = [pc EXCEPT ![self] = i.next]
    /\ UNCHANGED <<test, ep, net, unexp, mreq, sendst, req, log, nTest, nWait,
                   env, dtypes, err, held, world, nCall>>

\* msg_impl<const T>(v, tag): the message object is built on the variable.
Construct(self) ==
    LET i == Instr(self) IN
    /\ i.op = "msg"
    /\ held' = [held EXCEPT ![self] = <<msg(i.cell, i.tag)>>]
    /\ pc' = [pc EXCEPT ![self] = i.next]
    /\ UNCHANGED <<test, store, ep, net, unexp, mreq, sendst, req, log, nTest, nWait,
                   env, dtypes, err, world, nCall>>

\* m.type(), m.size(), m.addr() on a message bound to the object.
Describe(self) ==
    LET i == Instr(self) IN
    /\ i.op = "describe"
    /\ \E d \in Descriptor(i.val) :
          IF d.crash
          THEN /\ err' = [err EXCEPT ![self] = <<Abort>>]
               /\ UNCHANGED <<pc, log, dtypes, nCall>>
          ELSE /\ dtypes' = [dtypes EXCEPT ![self] = @ \o d.commit]
               /\ nCall' = [nCall EXCEPT ![self] =
                     Called(@, Commits(d))]
               /\ log' = [log EXCEPT ![self] = Append(@,
                     [Entry("describe") EXCEPT
                         !.val = [type |-> Handle(dtypes[self], d), size |-> d.count,
                                  addr |-> d.addr,
                                  layout |-> Layout(dtypes[self] \o d.commit,
                                                    Handle(dtypes[self], d))]])]
               /\ pc' = [pc EXCEPT ![self] = i.next]
               /\ UNCHANGED err
    /\ UNCHANGED <<test, store, ep, net, unexp, mreq, sendst, req, nTest, nWait,
                   env, held, world>>

\* int comm::rank() and int comm::size() on comm::world
CommQuery(self, q, name) ==
    /\ Instr(self).op = "comm"
    /\ world' = [world EXCEPT ![self] = q.w]
    /\ nCall' = [nCall EXCEPT ![self] = Called(@, q.calls)]
    /\ IF q.abort
       THEN /\ err' = [err EXCEPT ![self] = <<Abort>>]
            /\ UNCHANGED log
       ELSE /\ log' = [log EXCEPT ![self] = Append(@, [Entry(name) EXCEPT !.val = q.ret])]
            /\ UNCHANGED err
    /\ UNCHANGED <<test, pc, store, ep, net, unexp, mreq, sendst, req, nTest, nWait,
                   env, dtypes, held>>

CommRank(self) == CommQuery(self, comm_rank(world[self], self), "rank")

CommSize(self) == CommQuery(self, comm_size(world[self], self), "size")

Next ==
    \/ \E self \in Ranks : Send(self)
    \/ \E self \in Ranks : SendNamed(self)
    \/ \E self \in Ranks : SendReturn(self)
    \/ \E s \in Ranks, d \in Ranks : Deliver(s, d)
    \/ \E self \in Ranks : Receive(self)
    \/ \E self \in Ranks : ReceiveAsync(self)
    \/ \E self \in Ranks : IsDone(self)
    \/ \E self \in Ranks : Get(self)
    \/ \E self \in Ranks : GetStatus(self)
    \/ \E self \in Ranks : MoveRequest(self)
    \/ \E self \in Ranks : Assign(self)
    \/ \E self \in Ranks : Construct(self)
    \/ \E self \in Ranks : Describe(self)
    \/ \E self \in Ranks : CommRank(self)
    \/ \E self \in Ranks : CommSize(self)

Spec == Init /\ [][Next]_vars

\* ------------------------------------------------------------------- claims

\* The entries of rank self's log that are returns of operation op, in call order.
Returns(self, op) == SelectSeq(log[self], LAMBDA e : e.op = op)

\* Rank self has run its test body to the end with no send outstanding.
Finished(self) == Instr(self).op = "none" /\ sendst[self] = "idle"

\* C1: in the request/response test, whenever a blocking receive posted on
\* endpoint(A) with tag t returns at B after A's blocking send of v with tag t,
\* B's bound variable equals v and the Status reports source A and tag t (the
\* same for the reply in the other direction).
C1_BlockingRoundTrip ==
    test.name = "scalar" =>
        \A self \in {test.a, test.b} :
            LET sender == IF self = test.b THEN test.a ELSE test.b
                v == IF self = test.b THEN test.x ELSE test.y
            IN \A n \in 1 .. Len(log[self]) :
                  log[self][n].op = "recv" =>
                      /\ log[self][n].val = v
                      /\ store[self]["val"] = v
                      /\ status_source(log[self][n].st[1]) = sender
                      /\ status_tag(log[self][n].st[1]) = test.t1

C1_Witness ==
    /\ test.name = "scalar"
    /\ test.t1 = 11
    /\ Finished(test.a) /\ Finished(test.b)
    /\ Len(Returns(test.b, "recv")) = 1
    /\ Len(Returns(test.a, "recv")) = 1

\* The values successive isDone() calls returned never go from true back to false.
Monotone(d) == \A n \in 1 .. Len(d) : \A k \in n .. Len(d) : d[n].b => d[k].b

\* C2 as stated: for a request posted when no matching message had arrived,
\* the first isDone() returns false, and the returned values never go back
\* from true to false.
C2_FirstIsDoneFalse ==
    test.name = "future" =>
        LET d == Returns(test.b, "isDone")
            posted == Returns(test.b, "irecv")
        IN /\ (Len(posted) = 1 /\ ~posted[1].arrived /\ Len(d) >= 1) => ~d[1].b
           /\ Monotone(d)

\* C2 as amended: an isDone() call made while no matching message has arrived
\* returns false (so the first isDone() may return true when the message
\* arrives between the post and the call), and the returned values change
\* from false to true at most once and never back.
C2_IsDoneFalseUntilArrival ==
    test.name = "future" =>
        LET d == Returns(test.b, "isDone")
        IN /\ \A n \in 1 .. Len(d) : ~d[n].arrived => ~d[n].b
           /\ Monotone(d)

C2_Witness ==
    /\ test.name = "future"
    /\ LET d == Returns(test.b, "isDone")
           posted == Returns(test.b, "irecv")
       IN /\ Len(posted) = 1 /\ ~posted[1].arrived
          /\ Len(d) = 3 /\ ~d[1].b /\ d[2].b /\ d[3].b /\ d[3].prim = 0

\* C3 as stated: in every request object, the source and the target of a move
\* included, the Status is populated exactly when the completion flag is set.
C3_StatusIffDone ==
    \A self \in Ranks : \A o \in 1 .. Len(req[self]) :
        (req[self][o].m_status # <<>>) <=> (req[self][o].done # 0)

\* C4 as stated: getStatus() on a request that is PENDING when it is called
\* throws and returns no Status; a Status comes back only from a request that
\* was DONE before the call.
C4_PendingAlwaysThrows ==
    \A self \in Ranks :
        LET g == Returns(self, "getStatus")
        IN \A n \in 1 .. Len(g) :
              /\ g[n].wasDone = 0 => (g[n].threw /\ g[n].st = <<>>)
              /\ ~g[n].threw => g[n].wasDone # 0

\* C4 as amended: getStatus() on a PENDING request polls the transport once;
\* it throws and returns no Status exactly when the posted receive has not
\* completed, and otherwise completes the request and returns its Status.  On
\* a DONE request it returns the Status without polling.
C4_GetStatusPollsFirst ==
    \A self \in Ranks :
        LET g == Returns(self, "getStatus")
        IN \A n \in 1 .. Len(g) :
              /\ g[n].threw <=> (g[n].wasDone = 0 /\ ~g[n].arrived)
              /\ g[n].threw => g[n].st = <<>>
              /\ ~g[n].threw =>
                    /\ Len(g[n].st) = 1
                    /\ status_source(g[n].st[1]) = test.a
                    /\ LiveReq(self).done # 0
              /\ g[n].prim = (IF g[n].wasDone = 0 THEN 1 ELSE 0)

C4_Witness ==
    LET g == Returns(test.b, "getStatus")
    IN /\ test.name = "future"
       /\ Len(g) >= 2
       /\ g[1].wasDone = 0 /\ g[1].threw
       /\ g[2].wasDone = 0 /\ ~g[2].threw

\* C5: two consecutive get() calls return the same value, the second one does
\* not go through MPI_Wait, and MPI_Wait is invoked at most once per request.
C5_GetTwice ==
    \A self \in Ranks :
        /\ nWait[self] <= 1
        /\ \A n \in 1 .. (Len(log[self]) - 1) :
              (log[self][n].op = "get" /\ log[self][n + 1].op = "get") =>
                  /\ log[self][n + 1].val = log[self][n].val
                  /\ log[self][n + 1].prim = 0

C5_Witness ==
    /\ test.name = "future"
    /\ Len(log[test.b]) >= 3
    /\ log[test.b][2].op = "get" /\ log[test.b][2].prim = 1
    /\ log[test.b][3].op = "get"

\* C6: a get() on a request posted on endpoint(A) with tag t returns only once
\* the posted receive has completed; the request is then DONE, its Status is
\* materialized, and the value returned is the bound variable, holding the
\* value A sent with tag t.
C6_GetReturnsReceived ==
    test.name = "future" =>
        LET g == Returns(test.b, "get")
        IN \A n \in 1 .. Len(g) :
              /\ g[n].arrived
              /\ LiveReq(test.b).done # 0
              /\ Len(g[n].st) = 1
              /\ status_source(g[n].st[1]) = test.a
              /\ status_tag(g[n].st[1]) = test.t2
              /\ test.t1 = test.t2
              /\ g[n].val = test.x
              /\ g[n].val = store[test.b][LiveReq(test.b).m_msg.m_data]

C6_Witness ==
    /\ test.name = "future"
    /\ test.t2 = 11
    /\ Len(log[test.b]) = 2
    /\ log[test.b][2].op = "get" /\ log[test.b][2].wasDone = 0
    /\ ~log[test.b][1].arrived

\* C7 as stated: in the tags test both ranks run to completion in every
\* execution (no state in which they have not both finished is without a
\* further step), and the receive of tag t2 yields y, the later one of t1 x.
C7_TagsTestCompletes ==
    test.name = "tags" =>
        /\ (Finished(test.a) /\ Finished(test.b)) \/ ENABLED Next
        /\ LET r == Returns(test.b, "recv")
           IN /\ Len(r) >= 1 => r[1].val = test.y
              /\ Len(r) >= 2 => r[2].val = test.x

\* C8: in the two-rank ping-pong every reply goes to the rank that sent the
\* message just received, rank 0 receives only odd values and rank 1 only
\* even ones.
C8_PingPongReplies ==
    (test.name = "pingpong" /\ test.nprocs = 2) =>
        \A self \in 0 .. 1 :
            \A n \in 1 .. Len(log[self]) :
                /\ log[self][n].op = "recv" =>
                      log[self][n].val % 2 = (IF self = 0 THEN 1 ELSE 0)
                /\ (log[self][n].op = "send" /\ n > 1) =>
                      /\ log[self][n - 1].op = "recv"
                      /\ log[self][n].peer = log[self][n - 1].peer
                      /\ log[self][n].val = log[self][n - 1].val + 1

\* Rank self has left the while loop of the ping-pong.
LeftLoop(self) ==
    /\ pc[self] = 1
    /\ store[self]["p"] > PingPongLimit
    /\ sendst[self] = "idle"

C8_Witness ==
    /\ test.name = "pingpong" /\ test.nprocs = 2
    /\ LeftLoop(0) /\ LeftLoop(1)
    /\ Len(Returns(0, "recv")) = 6
    /\ Len(Returns(1, "recv")) = 7

\* C9 as stated: the two-rank ping-pong terminates; every state in which the
\* two ranks have not both left the loop has a further step.
C9_PingPongTerminates ==
    (test.name = "pingpong" /\ test.nprocs = 2) =>
        (LeftLoop(0) /\ LeftLoop(1)) \/ ENABLED Next

\* C10: when no peer ever sends a matching message (and the transport accepts
\* the post), receiveAsync returns a PENDING request, every isDone() returns
\* false after exactly one poll, and neither call blocks: the caller's next
\* call is always enabled.
C10_NeverBlocks ==
    (test.name = "future" /\ test.t1 # test.t2 /\ env.fault.prim # "irecv") =>
        /\ pc[test.b] = 0 => ENABLED ReceiveAsync(test.b)
        /\ pc[test.b] = 1 =>
              /\ ~Returns(test.b, "irecv")[1].arrived
              /\ LiveReq(test.b).done = 0
              /\ Len(log[test.b]) <= MaxCalls => ENABLED IsDone(test.b)
        /\ LET d == Returns(test.b, "isDone")
           IN \A n \in 1 .. Len(d) : ~d[n].b /\ d[n].prim = 1

C10_Witness ==
    /\ test.name = "future" /\ test.t1 # test.t2
    /\ Len(unexp[test.b]) = 1
    /\ Len(Returns(test.b, "isDone")) = MaxCalls
    /\ nTest[test.b] = MaxCalls

\* The elements of the container the test sends, and the vector b receives into.
Sent == env.obj.elems
Buffer == store[test.b]["vec"]

\* C11: whenever b's receive into a vector of N elements has returned after a
\* sent a vector s of N elements, the buffer holds N elements and
\* buffer[i] = s[i] for every i.
C11_VectorRoundTrip ==
    (test.name = "array" /\ Len(Returns(test.b, "recv")) = 1) =>
        /\ Len(Buffer) = Len(Sent)
        /\ \A i \in 1 .. Len(Sent) : Buffer[i] = Sent[i]

C11_Witness ==
    /\ test.name = "array"
    /\ Len(Sent) = MaxLen
    /\ Sent[1] # Sent[MaxLen]
    /\ Len(Returns(test.b, "recv")) = 1
    /\ Buffer = Sent

\* C12: for a list l of N >= 1 elements, every layout committed for the send
\* of l has exactly N entries, entry i displaced by address(node i) -
\* address(node 1), and once b's receive into a vector of N elements has
\* returned, buffer[i] is the i-th element of l in traversal order.
C12_ListRoundTrip ==
    (test.name = "lists" /\ Len(Sent) >= 1) =>
        /\ \A k \in 1 .. Len(dtypes[test.a]) :
              /\ Len(dtypes[test.a][k]) = Len(Sent)
              /\ \A i \in 1 .. Len(Sent) :
                    dtypes[test.a][k][i].disp = env.obj.addrs[i] - env.obj.addrs[1]
        /\ Len(Returns(test.b, "recv")) = 1 => \A i \in 1 .. Len(Sent) : Buffer[i] = Sent[i]

\* The exception that ended rank self's test body, and the other rank of the
\* request/response pair.
Thrown(self) == err[self][1]
Peer(self) == IF self = test.a THEN test.b ELSE test.a

C14_ReceiveFailure ==
    \A self \in Ranks :
        (err[self] # <<>> /\ Thrown(self).what = "receive") =>
            /\ Thrown(self).kind = "comm_error"
            /\ Thrown(self).rank = self
            /\ Thrown(self).peer = Peer(self)
            /\ env.fault.prim = "recv" =>
                  /\ Returns(self, "recv") = <<>>
                  /\ nCall[self]["MPI_Recv"] = 1
            /\ env.fault.prim = "irecv" =>
                  /\ Returns(self, "irecv") = <<>>
                  /\ req[self] = <<>>
                  /\ mreq[self] = <<>>
                  /\ nCall[self]["MPI_Irecv"] = 1

C14_Witness ==
    /\ env.fault.prim = "recv"
    /\ err[test.b] # <<>>
    /\ Thrown(test.b).what = "receive"
    /\ Len(unexp[test.b]) = 1
    /\ nCall[test.b]["MPI_Recv"] = 1

\* C15: a const message built on a variable holding x carries x: whatever the
\* caller writes to the variable before the send, every payload a hands to
\* the transport, and the value b receives, is x.
C15_ConstMessageCopies ==
    test.name = "constmsg" =>
        /\ \A n \in 1 .. Len(net[<<test.a, test.b>>]) : net[<<test.a, test.b>>][n].data = test.x
        /\ Len(Returns(test.b, "recv")) = 1 => store[test.b]["val"] = test.x

\* C16: two successive descriptor queries on a message bound to a scalar, a
\* vector or a list of at least one element, not modified in between, return
\* the same datatype handle, the same element count and the same base address.
C16_DescriptorIdempotent ==
    LET d == Returns(test.a, "describe")
    IN (test.name = "descr" /\ Len(Sent) >= 1 /\ Len(d) = 2) =>
          /\ d[1].val.type = d[2].val.type
          /\ d[1].val.size = d[2].val.size
          /\ d[1].val.addr = d[2].val.addr

\* C17: once a's send of a list has completed, a holds no committed layout
\* that has not been released (it held none before the send).
C17_HandlesReleased ==
    (test.name = "lists" /\ Len(Returns(test.a, "send")) = 1) => dtypes[test.a] = <<>>

\* C18: while MPI_Init has not been called, no rank() or size() call returns
\* a value, a call that has queried the runtime has ended the process by the
\* assertion (no exception is thrown), and comm::world is left as constructed:
\* flag false, rank and size -1.
C18_UninitializedIsFatal ==
    (test.name = "comm" /\ ~env.mpi) =>
        \A self \in Ranks :
            /\ Returns(self, "rank") = <<>>
            /\ Returns(self, "size") = <<>>
            /\ world[self] = [m_initialized |-> FALSE, m_comm_size |-> -1, m_rank |-> -1]
            /\ nCall[self]["MPI_Initialized"] >= 1 => err[self] = <<Abort>>
            /\ nCall[self]["MPI_Comm_rank"] = 0
            /\ nCall[self]["MPI_Comm_size"] = 0

C18_Witness ==
    /\ test.name = "comm"
    /\ ~env.mpi
    /\ err[test.a] = <<Abort>>
    /\ nCall[test.a]["MPI_Initialized"] = 1

\* C19: once comm::world has cached rank and size, it stays initialized with
\* the rank and size of the process, every rank() and size() call returns the
\* cached values, and the transport has been asked for the rank and for the
\* size exactly once, whatever the process has done since.
C19_CacheIsStable ==
    \A self \in Ranks :
        /\ nCall[self]["MPI_Comm_rank"] >= 1 => world[self].m_initialized
        /\ world[self].m_initialized =>
              /\ world[self].m_rank = self
              /\ world[self].m_comm_size = test.nprocs
              /\ nCall[self]["MPI_Comm_rank"] = 1
              /\ nCall[self]["MPI_Comm_size"] = 1
              /\ nCall[self]["MPI_Initialized"] = 1
              /\ \A n \in 1 .. Len(Returns(self, "rank")) : Returns(self, "rank")[n].val = self
              /\ \A n \in 1 .. Len(Returns(self, "size")) :
                    Returns(self, "size")[n].val = test.nprocs

C19_Witness ==
    /\ test.name = "comm"
    /\ world[test.b].m_initialized
    /\ Len(log[test.b]) = MaxCalls
    /\ Len(Returns(test.b, "rank")) >= 1
    /\ Len(Returns(test.b, "size")) >= 1
    /\ log[test.b][1].op = "size"
    /\ nCall[test.b]["MPI_Comm_rank"] = 1

\* C20: a send of an empty vector or list, and a receive into an empty
\* vector, end before any transport primitive is invoked: a commits no
\* datatype and never enters MPI_Send, b never enters MPI_Recv, and neither
\* call returns.
C20_EmptyFailsFast ==
    (test.name \in {"array", "lists"} /\ Sent = <<>>) =>
        /\ nCall[test.a]["MPI_Type_commit"] = 0
        /\ nCall[test.a]["MPI_Send"] = 0
        /\ nCall[test.b]["MPI_Recv"] = 0
        /\ Returns(test.a, "send") = <<>>
        /\ Returns(test.b, "recv") = <<>>

\* The explicit-message form of a raw-value send: msg(v, 0) on the same v.
Explicit(obj) == [obj EXCEPT !.isConst = FALSE]

\* The messages of rank self the transport holds.
InFlight(self) ==
    LET Range(q) == {q[j] : j \in 1 .. Len(q)}
        Held == UNION ({Range(net[c]) : c \in DOMAIN net}
                       \cup {Range(unexp[d]) : d \in Ranks})
    IN {m \in Held : m.src = self}

\* C21: a raw-value send of a container v of N >= 1 elements hands MPI_Send
\* what a send of msg(v, 0) hands it: the process does not end computing the
\* descriptor, the layouts committed are those msg(v, 0) commits, and every
\* message goes to the endpoint's rank with tag 0 and the elements msg(v, 0)
\* reads.
C21_RawEqualsExplicit ==
    (test.name \in {"array", "lists"} /\ env.obj.isConst /\ Len(Sent) >= 1) =>
        \E d \in endpoint_send_args(<<>>, SendC(test.b, 0, Explicit(env.obj), 1)) :
            /\ ~d.crash
            /\ err[test.a] = <<>>
            /\ nCall[test.a]["MPI_Send"] >= 1 => dtypes[test.a] = d.commit
            /\ \A m \in InFlight(test.a) :
                  m.dst = test.b /\ m.tag = 0 /\ m.data = d.data

\* C22: in e << x << y with one tag, every send that returns returns the
\* endpoint e, MPI_Send is invoked for x and then for y, both to e's rank, and
\* the receiver's successive receives from the sender with that tag yield x
\* and then y.
C22_ChainedSends ==
    test.name = "chain" =>
        /\ \A n \in 1 .. Len(Returns(test.a, "send")) :
              Returns(test.a, "send")[n].peer = test.b
        /\ \A m \in InFlight(test.a) : m.dst = test.b /\ m.tag = test.t1
        /\ nCall[test.a]["MPI_Send"] <= 2
        /\ Len(Returns(test.b, "recv")) <= nCall[test.a]["MPI_Send"]
        /\ nCall[test.a]["MPI_Send"] = 1 => \A m \in InFlight(test.a) : m.data = test.x
        /\ Len(Returns(test.b, "recv")) >= 1 => Returns(test.b, "recv")[1].val = test.x
        /\ Len(Returns(test.b, "recv")) = 2 =>
              /\ Returns(test.b, "recv")[2].val = test.y
              /\ store[test.b]["val"] = test.x
              /\ store[test.b]["k"] = test.y

C22_Witness ==
    /\ test.name = "chain"
    /\ test.x # test.y
    /\ test.b # 0
    /\ Len(Returns(test.a, "send")) = 2
    /\ Len(Returns(test.b, "recv")) = 2

\* The calls on a request, and those that materialize its Status: the call
\* found the request pending and left it done.
RequestOps == {"isDone", "get", "getStatus"}
Materializes(e) ==
    /\ e.wasDone = 0
    /\ \/ e.op = "isDone" /\ e.b
       \/ e.op = "getStatus" /\ ~e.threw
       \/ e.op = "get"

\* C23: a call of isDone, get or getStatus that finds the request done
\* invokes neither MPI_Test nor MPI_Wait; once a call has left the request
\* done every later call finds it done, also after a move; and over the life
\* of the request at most one call materializes a Status.
C23_DoneIsFinal ==
    \A self \in Ranks :
        LET L == log[self] IN
        /\ \A n \in 1 .. Len(L) :
              (L[n].op \in RequestOps /\ L[n].wasDone # 0) => L[n].prim = 0
        /\ \A n \in 1 .. Len(L), m \in 1 .. Len(L) :
              (n < m /\ Materializes(L[n]) /\ L[m].op \in RequestOps \cup {"move"}) =>
                  L[m].wasDone # 0
        /\ Cardinality({n \in 1 .. Len(L) : Materializes(L[n])}) <= 1
        /\ nTest[self] + nWait[self]
              = Cardinality({n \in 1 .. Len(L) : L[n].op \in RequestOps /\ L[n].prim = 1})

C23_Witness ==
    /\ test.name = "future"
    /\ \E n \in 1 .. Len(log[test.b]) :
          /\ Materializes(log[test.b][n])
          /\ n + 2 <= Len(log[test.b])
          /\ log[test.b][n + 1].op = "move"
          /\ log[test.b][n + 2].op \in RequestOps

\* C24: in every form of send (temporary message, named message, raw value)
\* the call terminates after invoking MPI_Send exactly once with the message's
\* descriptor, the endpoint's rank and the message's tag: the sender neither
\* dies nor stays in the call, a sender that is through has invoked MPI_Send
\* once, what it handed over is x for b with the tag, and the run goes on
\* until both ranks are through.
C24_EveryFormSendsOnce ==
    test.name = "overload" =>
        /\ err[test.a] = <<>>
        /\ sendst[test.a] # "recursing"
        /\ nCall[test.a]["MPI_Send"] <= 1
        /\ Finished(test.a) =>
              nCall[test.a]["MPI_Send"] = 1 /\ Len(Returns(test.a, "send")) = 1
        /\ \A m \in InFlight(test.a) :
              /\ m.dst = test.b
              /\ m.data = test.x
              /\ m.tag = IF env.form = "raw" THEN 0 ELSE test.t1
        /\ (Finished(test.a) /\ Finished(test.b)) \/ ENABLED Next

\* C25: the descriptor of a const-qualified message bound to a scalar, a
\* vector or a list v of at least one element is the descriptor the
\* unqualified rule yields for v itself: the query does not end the process,
\* and its count, its base address and the layout of its element kind are
\* those of msg(v); for a list the layout has one entry per node of v.
C25_ConstDescriptor ==
    (test.name = "descr" /\ env.obj.isConst /\ Len(Sent) >= 1) =>
        /\ err[test.a] = <<>>
        /\ \A n \in 1 .. Len(Returns(test.a, "describe")) :
              \E d \in Descriptor(Explicit(env.obj)) :
                  LET q == Returns(test.a, "describe")[n].val IN
                  /\ ~d.crash
                  /\ q.size = d.count
                  /\ q.addr = d.addr
                  /\ q.layout = Layout(d.commit, Handle(<<>>, d))
                  /\ env.obj.kind = "list" => Len(q.layout) = Len(Sent)

\* C26: with three ranks, a receive on the wildcard endpoint completes with
\* the message of either sender, and its Status names the rank of the sender
\* whose message it took, never the wildcard; a receive on endpoint(A)
\* completes only with a message A sent, whatever else has arrived.
C26_WildcardSource ==
    LET R == Returns(test.b, "recv") IN
    test.name = "wild" =>
        /\ Len(R) >= 1 =>
              /\ R[1].peer \in {test.a, Third}
              /\ R[1].val = IF R[1].peer = test.a THEN test.x ELSE test.y
              /\ status_source(R[1].st[1]) = R[1].peer
              /\ status_source(R[1].st[1]) # any
              /\ store[test.b]["k"] = R[1].val
        /\ Len(R) = 2 =>
              /\ R[2].peer = test.a
              /\ R[2].val = test.x
              /\ status_source(R[2].st[1]) = test.a
              /\ store[test.b]["val"] = test.x

C26_Witness ==
    /\ test.name = "wild"
    /\ test.x # test.y
    /\ Len(Returns(test.b, "recv")) = 2
    /\ Returns(test.b, "recv")[1].peer = test.a
    /\ Returns(test.b, "recv")[2].peer = test.a
    /\ Len(unexp[test.b]) = 1
    /\ unexp[test.b][1].src = Third

\* C27: the blocking request/response exchange (a sends and then receives, b
\* receives and then sends, one tag) never deadlocks when no primitive fails:
\* in every state either both ranks have run their test body to the end, or
\* some step is possible; this with each send buffered or rendezvous.  At the
\* end both sends and both receives have returned.
C27_RequestResponseCompletes ==
    (test.name = "scalar" /\ env.fault = NoFault) =>
        /\ (Finished(test.a) /\ Finished(test.b)) \/ ENABLED Next
        /\ (Finished(test.a) /\ Finished(test.b)) =>
              \A self \in {test.a, test.b} :
                  /\ Len(Returns(self, "send")) = 1
                  /\ Len(Returns(self, "recv")) = 1
                  /\ err[self] = <<>>

C27_Witness ==
    /\ test.name = "scalar"
    /\ env.fault = NoFault
    /\ Finished(test.a)
    /\ Finished(test.b)
    /\ Len(Returns(test.a, "recv")) = 1
    /\ Len(Returns(test.b, "send")) = 1

\* C28: in the two-rank ping-pong, in every state where both ranks have left
\* the loop, every message sent has been received: the transport holds no
\* message, and the receives that returned are as many as the sends that
\* returned.
C28_NothingLeftInFlight ==
    (test.name = "pingpong" /\ test.nprocs = 2 /\ LeftLoop(0) /\ LeftLoop(1)) =>
        /\ InFlight(0) = {}
        /\ InFlight(1) = {}
        /\ Len(Returns(0, "send")) + Len(Returns(1, "send"))
              = Len(Returns(0, "recv")) + Len(Returns(1, "recv"))

\* C30: a getStatus() that fails leaves the request as it was: right after
\* the failing call the request is pending, holds no Status, and has the
\* handle and the message it was posted with, and the transport request is
\* not freed; a later get() returns the received value with the Status of
\* the message, and a later isDone() made after the arrival returns true.
C30_FailedGetStatusChangesNothing ==
    test.name = "future" =>
        LET L == log[test.b] IN
        /\ (L # <<>> /\ L[Len(L)].op = "getStatus" /\ L[Len(L)].threw) =>
              /\ LiveReq(test.b) = request(LiveReq(test.b).m_req, msg("k", test.t2))
              /\ req[test.b][1].m_req = LiveReq(test.b).m_req
              /\ LiveTr(test.b).state # "null"
        /\ \A n \in 1 .. Len(L), m \in 1 .. Len(L) :
              (n < m /\ L[n].op = "getStatus" /\ L[n].threw) =>
                  /\ L[m].op = "get" =>
                        /\ L[m].val = test.x
                        /\ L[m].st # <<>>
                        /\ status_source(L[m].st[1]) = test.a
                        /\ status_tag(L[m].st[1]) = test.t2
                  /\ (L[m].op = "isDone" /\ L[m].arrived) => L[m].b

C30_Witness ==
    /\ test.name = "future"
    /\ Len(log[test.b]) >= 3
    /\ log[test.b][2].op = "getStatus"
    /\ log[test.b][2].threw
    /\ log[test.b][3].op = "get"

\* C29 as stated: get() on a pending request never raises, sets the request
\* done and materializes a Status whether MPI_Wait reports success or failure,
\* and a completion failure is observable through status.error(): the Status
\* of a get() whose MPI_Wait failed reports an error.
C29_FailureInStatus ==
    (test.name = "future" /\ env.fault.prim = "wait") =>
        /\ err[test.b] = <<>>
        /\ \A n \in 1 .. Len(log[test.b]) :
              (log[test.b][n].op = "get" /\ log[test.b][n].wasDone = 0) =>
                  /\ ~log[test.b][n].threw
                  /\ Len(log[test.b][n].st) = 1
                  /\ status_error(log[test.b][n].st[1]) # MPI_SUCCESS

\* C29 as amended: get() never raises, whether MPI_Wait reports success or failure: no
\* exception ends the caller, a get() on a pending request goes through
\* MPI_Wait once and leaves the request done with a Status built from the
\* completion record (the source and tag of the message, the error field as
\* the transport left it), every get() returns the bound variable, and every
\* later call finds the request done.  A failure shows in nothing but the
\* error field of that Status: an error there occurs only in a run in which
\* MPI_Wait failed.
C29_GetNeverRaises ==
    (test.name = "future" /\ env.fault.prim \in {"none", "wait"}) =>
        LET L == log[test.b] IN
        /\ err[test.b] = <<>>
        /\ \A n \in 1 .. Len(L) :
              L[n].op = "get" =>
                  /\ ~L[n].threw
                  /\ L[n].prim = (IF L[n].wasDone = 0 THEN 1 ELSE 0)
                  /\ Len(L[n].st) = 1
                  /\ status_source(L[n].st[1]) = test.a
                  /\ status_tag(L[n].st[1]) = test.t2
                  /\ status_error(L[n].st[1]) \in {MPI_SUCCESS, MPI_ERR}
                  /\ status_error(L[n].st[1]) # MPI_SUCCESS => env.fault.prim = "wait"
                  /\ L[n].val = store[test.b]["k"]
                  /\ LiveReq(test.b).done # 0
                  /\ LiveReq(test.b).m_status = L[n].st
                  /\ \A m \in (n + 1) .. Len(L) :
                        L[m].op \in RequestOps \cup {"move"} => L[m].wasDone # 0

C29_Witness ==
    /\ test.name = "future"
    /\ env.fault.prim = "wait"
    /\ Len(log[test.b]) >= 3
    /\ log[test.b][2].op = "get"
    /\ log[test.b][2].wasDone = 0
    /\ status_error(log[test.b][2].st[1]) = MPI_ERR
    /\ log[test.b][3].op = "getStatus"
    /\ ~log[test.b][3].threw

====
